---------------------------- MODULE Spec2Model ----------------------------
(***************************************************************************)
(* Model of the pulsar server bootstrap (src/pulsar.go) and of the storage *)
(* connection opener (src/db/database.go).                                 *)
(*                                                                         *)
(* Serve is modelled statement group by statement group; the collaborators *)
(* it calls (httpscerts, gorm, httprouter, net/http, queue) are modelled   *)
(* by the calls made to them and by the outcomes they can report.          *)
(***************************************************************************)
EXTENDS Integers, Sequences, FiniteSets, TLC

VARIABLES
    Settings,      \* config.Settings, read-only after startup
    Routes,        \* router.Routes, the root of the router tree
    pc,            \* position of Serve
    mux,           \* the httprouter bindings, in the order they were made
    cells,         \* the `route` variables captured by the bound closures
    events,        \* history: the calls Serve made, in order, with outcomes
    defers,        \* Serve's stack of deferred calls
    Builder,       \* db.Builder
    Pool,          \* queue.Pool (its capacity once created)
    retval,        \* the value Serve returned
    lastDispatch   \* history: the last request a bound callback served

vars == <<Settings, Routes, pc, mux, cells, events, defers, Builder, Pool,
          retval, lastDispatch>>

---------------------------------------------------------------------------
(* Bounds *)

\* Longest request body, in bytes.
MaxBody == 2
\* Most routes in a router tree of the route-registration specification.
MaxRoutes == 2

---------------------------------------------------------------------------
(* Generic helpers *)

Nil == "nil"
None == [kind |-> "none"]

Ops(evs) == [i \in 1..Len(evs) |-> evs[i].op]

Count(evs, o) == Cardinality({i \in 1..Len(evs) : evs[i].op = o})

Has(evs, o) == \E i \in 1..Len(evs) : evs[i].op = o

\* Every occurrence of a comes before every occurrence of b.
Before(evs, a, b) ==
    \A i, j \in 1..Len(evs) : (evs[i].op = a /\ evs[j].op = b) => i < j

Ev(o, r) == [op |-> o, res |-> r]

RECURSIVE Filter(_, _)
Filter(s, keep) ==
    IF s = <<>> THEN <<>>
    ELSE (IF Head(s) \in keep THEN <<Head(s)>> ELSE <<>>) \o Filter(Tail(s), keep)

---------------------------------------------------------------------------
(* strconv.ParseInt(s, 10, 32) as Serve uses it on Queue.Routines *)

Digits == {"0", "1", "2", "3", "4", "5", "6", "7", "8", "9"}

DigitVal(c) ==
    CASE c = "0" -> 0 [] c = "1" -> 1 [] c = "2" -> 2 [] c = "3" -> 3
      [] c = "4" -> 4 [] c = "5" -> 5 [] c = "6" -> 6 [] c = "7" -> 7
      [] c = "8" -> 8 [] c = "9" -> 9

\* The largest 32-bit signed value; its magnitude plus one is the smallest.
MaxInt32 == 2147483647

\* The magnitude of a digit string: its value n while it is at most MaxInt32,
\* then "pow31" for exactly 2^31 and "big" beyond it.
RECURSIVE ParseUint(_, _)
ParseUint(s, acc) ==
    IF s = <<>> THEN acc
    ELSE LET d == DigitVal(Head(s))
             n == IF acc.range # "fits" \/ acc.n > MaxInt32 \div 10
                  THEN [n |-> 0, range |-> "big"]
                  ELSE IF acc.n = MaxInt32 \div 10 /\ d = 8
                  THEN [n |-> 0, range |-> "pow31"]
                  ELSE IF acc.n = MaxInt32 \div 10 /\ d = 9
                  THEN [n |-> 0, range |-> "big"]
                  ELSE [n |-> acc.n * 10 + d, range |-> "fits"]
         IN  ParseUint(Tail(s), n)

\* The result pair (value, err): a syntax error for an empty string, a lone
\* sign or a non-digit, a range error outside the 32-bit signed range.
ParseInt(s) ==
    LET signed == s # <<>> /\ Head(s) \in {"+", "-"}
        neg    == s # <<>> /\ Head(s) = "-"
        ds     == IF signed THEN Tail(s) ELSE s
    IN  IF ds = <<>> \/ \E i \in 1..Len(ds) : ds[i] \notin Digits
        THEN [val |-> 0, err |-> "ErrSyntax"]
        ELSE LET u == ParseUint(ds, [n |-> 0, range |-> "fits"])
             IN  IF u.range = "big" \/ (u.range = "pow31" /\ ~neg)
                 THEN [val |-> IF neg THEN 0 - MaxInt32 - 1 ELSE MaxInt32,
                       err |-> "ErrRange"]
                 ELSE IF u.range = "pow31"
                 THEN [val |-> 0 - MaxInt32 - 1, err |-> Nil]
                 ELSE [val |-> IF neg THEN 0 - u.n ELSE u.n, err |-> Nil]

---------------------------------------------------------------------------
(* Inputs *)

\* Values of config.Settings.Queue.Routines, as character sequences.
RoutinesInputs ==
    { <<>>, <<"a", "b", "c">>, <<"0">>, <<"-", "1">>, <<"4">>, <<"+", "2">>,
      <<"4", "x">>, <<"-">>, <<"2", "1", "4", "7", "4", "8", "3", "6", "4", "8">> }

DriverInputs == {"mysql", "postgres", "sqlite3", "oracle"}

SettingsInputs ==
    [Development : BOOLEAN, CertEnabled : BOOLEAN, Driver : DriverInputs,
     AutoMigrate : BOOLEAN, Routines : RoutinesInputs]

GetRequest == "GET"
HeadRequest == "HEAD"
PostRequest == "POST"
PutRequest == "PUT"
PatchRequest == "PATCH"
DeleteRequest == "DELETE"

Methods == {GetRequest, HeadRequest, PostRequest, PutRequest, PatchRequest,
            DeleteRequest, "OPTIONS"}

BoundMethods == Methods \ {"OPTIONS"}

\* (method, URI) choices of a route: every method, and one verb on a second URI.
RouteChoices ==
    {[Method |-> m, URI |-> "/a"] : m \in Methods}
        \cup {[Method |-> GetRequest, URI |-> "/b"]}

\* The router tree has a fixed shape: the root 1 has the children 2 and 3,
\* and 2 has the child 4. Depth-first order is 1, 2, 4, 3.
Nodes == 1..4
Root == 1
ChildsOf == (1 :> <<2, 3>>) @@ (2 :> <<4>>) @@ (3 :> <<>>) @@ (4 :> <<>>)

\* The routes l[from+1 .. to], each with a handler of its own (its index in l).
Slice(l, from, to) ==
    [i \in 1..(to - from) |->
        [Method |-> l[from + i].Method, URI |-> l[from + i].URI,
         Handler |-> from + i]]

\* The tree whose nodes 1, 2, 4, 3 hold l cut at c[1] <= c[2] <= c[3].
MkTree(l, c) ==
    [n \in Nodes |->
        [Routes |-> CASE n = 1 -> Slice(l, 0, c[1])
                      [] n = 2 -> Slice(l, c[1], c[2])
                      [] n = 4 -> Slice(l, c[2], c[3])
                      [] n = 3 -> Slice(l, c[3], Len(l)),
         Childs |-> ChildsOf[n]]]

Cuts(k) == {c \in (0..k) \X (0..k) \X (0..k) : c[1] <= c[2] /\ c[2] <= c[3]}

RouteLists == UNION {[1..k -> RouteChoices] : k \in 0..MaxRoutes}

R(m, u) == [Method |-> m, URI |-> u]

\* Trees the bootstrap specification starts from: routes in one node and
\* across nodes, an unbound method, and a duplicate (method, URI) pair.
SampleTrees ==
    { MkTree(<<R("GET", "/a"), R("POST", "/a"), R("OPTIONS", "/a")>>, <<2, 2, 3>>),
      MkTree(<<R("PUT", "/a"), R("GET", "/b"), R("DELETE", "/a")>>, <<1, 2, 2>>),
      MkTree(<<R("GET", "/a"), R("GET", "/a")>>, <<1, 1, 1>>) }

Bytes == {"x", "y"}

Bodies == UNION {[1..k -> Bytes] : k \in 0..MaxBody}

\* A transport body stream: its bytes, and the offset at which reading it
\* fails (-1: it never fails).
BodyStreams ==
    UNION {{[data |-> d, failAt |-> f, pos |-> 0] : f \in -1..Len(d)} : d \in Bodies}

\* The transport streams of the bootstrap specification: an empty body, and
\* a body whose read fails after its first byte.
SampleStreams ==
    { [data |-> <<>>, failAt |-> -1, pos |-> 0],
      [data |-> <<"x", "y">>, failAt |-> 1, pos |-> 0] }

\* What a route's handler does: it returns a Response, or it panics.
HandlerOutcomes == {"response", "panic"}

---------------------------------------------------------------------------
(* The dispatch callbacks *)

\* ioutil.ReadAll: the bytes read and the error; a failing stream yields the
\* bytes before the failure together with the error.
ReadAll(body) ==
    IF body.failAt = -1
    THEN [buff |-> SubSeq(body.data, body.pos + 1, Len(body.data)),
          err |-> Nil,
          body |-> [body EXCEPT !.pos = Len(body.data)]]
    ELSE [buff |-> SubSeq(body.data, body.pos + 1, body.failAt),
          err |-> "ErrRead",
          body |-> [body EXCEPT !.pos = body.failAt]]

\* string(buff): the same bytes, as an immutable string.
String(buff) == [i \in 1..Len(buff) |-> buff[i]]

\* ioutil.NopCloser(bytes.NewBuffer(buff)): a fresh stream that never fails.
NopCloser(buff) == [data |-> buff, failAt |-> -1, pos |-> 0]

\* route.Handler(req) followed by res.Handle(req). A handler that panics
\* unwinds the callback: nothing after the call runs.
Invoke(route, req, outcome) ==
    [req |-> req, handler |-> route.Handler, handlerCalls |-> 1,
     writes |-> IF outcome = "response" THEN 1 ELSE 0,
     panicked |-> outcome # "response"]

\* A faulty variant of the development callback: a failed read drops the
\* bytes already read.
developmentHandler_DropOnError(route, r, outcome) ==
    LET rd   == ReadAll(r)
        buff == IF rd.err # Nil THEN <<>> ELSE rd.buff
        logs == <<"[PULSAR] Request">> \o
                (IF rd.err # Nil
                 THEN <<"[PULSAR] Failed to read the request body">> ELSE <<>>)
        req  == [Body |-> String(buff), Stream |-> NopCloser(buff)]
    IN  [logs |-> logs, bodyReads |-> 1, transport |-> rd.body]
            @@ Invoke(route, req, outcome)

developmentHandler(route, r, outcome) ==
    LET rd   == ReadAll(r)
        logs == <<"[PULSAR] Request">> \o
                (IF rd.err # Nil
                 THEN <<"[PULSAR] Failed to read the request body">> ELSE <<>>)
        req  == [Body |-> String(rd.buff), Stream |-> NopCloser(rd.buff)]
    IN  [logs |-> logs, bodyReads |-> 1, transport |-> rd.body]
            @@ Invoke(route, req, outcome)

productionHandler(route, r, outcome) ==
    LET rd  == ReadAll(r)
        req == [Body |-> String(rd.buff), Stream |-> NopCloser(rd.buff)]
    IN  [logs |-> <<>>, bodyReads |-> 1, transport |-> rd.body]
            @@ Invoke(route, req, outcome)

\* The closure a binding holds: the handler constructor chosen at
\* registration, over the route variable it captured.
Callback(b, heap, r, outcome) ==
    IF b.mode = "development"
    THEN developmentHandler(heap[b.route], r, outcome)
    ELSE productionHandler(heap[b.route], r, outcome)

---------------------------------------------------------------------------
(* RegisterRoutes *)

\* A faulty variant of the selection: the flag is not consulted.
SelectHandler_Production(development) == "production"

\* The handler constructor RegisterRoutes picks from the development flag.
SelectHandler(development) ==
    IF development THEN "development" ELSE "production"

\* A faulty variant of the loop body: the closures capture the loop
\* variable, one variable for all the iterations over a node's routes.
RouteVar_LoopVariable(n, i) == <<n, 0>>

\* The variable `route` of iteration i of the loop over node n's routes:
\* a fresh variable for every iteration.
RouteVar(n, i) == <<n, i>>

\* httprouter's Handle: a second handle for the same verb and path panics.
MuxHandle(st, verb, uri, cb) ==
    IF \E k \in 1..Len(st.mux) : st.mux[k].verb = verb /\ st.mux[k].uri = uri
    THEN [st EXCEPT !.panicked = TRUE]
    ELSE [st EXCEPT !.mux = Append(st.mux,
                                 [verb |-> verb, uri |-> uri,
                                  route |-> cb.route, mode |-> cb.mode])]

\* One iteration of the loop over r.Routes: the copy, then the switch.
RegisterRoute(st, element, addr, handler) ==
    IF st.panicked THEN st
    ELSE
    LET st1   == [st EXCEPT !.cells = (addr :> element) @@ st.cells]
        route == st1.cells[addr]
        cb    == [route |-> addr, mode |-> handler]
    IN  CASE route.Method = GetRequest    -> MuxHandle(st1, "GET", route.URI, cb)
          [] route.Method = HeadRequest   -> MuxHandle(st1, "HEAD", route.URI, cb)
          [] route.Method = PostRequest   -> MuxHandle(st1, "POST", route.URI, cb)
          [] route.Method = PutRequest    -> MuxHandle(st1, "PUT", route.URI, cb)
          [] route.Method = PatchRequest  -> MuxHandle(st1, "PATCH", route.URI, cb)
          [] route.Method = DeleteRequest -> MuxHandle(st1, "DELETE", route.URI, cb)
          [] OTHER -> st1

RECURSIVE RegisterLoop(_, _, _, _, _)
RegisterLoop(st, tree, n, i, handler) ==
    IF i > Len(tree[n].Routes) THEN st
    ELSE RegisterLoop(RegisterRoute(st, tree[n].Routes[i], RouteVar(n, i), handler),
                      tree, n, i + 1, handler)

RECURSIVE RegisterRoutes(_, _, _, _)
RECURSIVE RegisterChilds(_, _, _, _, _)
RegisterChilds(st, tree, n, j, development) ==
    IF j > Len(tree[n].Childs) \/ st.panicked THEN st
    ELSE RegisterChilds(RegisterRoutes(st, tree, tree[n].Childs[j], development),
                        tree, n, j + 1, development)

RegisterRoutes(st, tree, n, development) ==
    LET handler == SelectHandler(development)
    IN  RegisterChilds(RegisterLoop(st, tree, n, 1, handler), tree, n, 1, development)

\* httprouter.New()
NewMux == [mux |-> <<>>, cells |-> <<>>, panicked |-> FALSE]

---------------------------------------------------------------------------
(* db.Open *)

SupportedDrivers == {"mysql", "postgres", "sqlite3"}

\* A faulty variant of db.Open: an unsupported driver name falls through to
\* gorm.Open.
Open_NoDefault(driver, absOk, openOk, builder) ==
    LET call == <<Ev("db.Open", driver)>>
    IN  IF driver = "sqlite3" /\ ~absOk
        THEN [calls |-> call \o <<Ev("filepath.Abs", "err")>>,
              Builder |-> builder, fatal |-> TRUE]
        ELSE IF ~openOk
        THEN [calls |-> call \o <<Ev("gorm.Open", "err")>>,
              Builder |-> builder, fatal |-> TRUE]
        ELSE [calls |-> call \o <<Ev("gorm.Open", "ok")>>,
              Builder |-> "db", fatal |-> FALSE]

\* db.Open for a driver name, given whether filepath.Abs and gorm.Open
\* succeed: the calls it makes, the Builder it leaves, whether it ended in
\* log.Fatal.
Open(driver, absOk, openOk, builder) ==
    LET call == <<Ev("db.Open", driver)>>
    IN  IF driver \notin SupportedDrivers
        THEN [calls |-> call, Builder |-> builder, fatal |-> TRUE]
        ELSE IF driver = "sqlite3" /\ ~absOk
        THEN [calls |-> call \o <<Ev("filepath.Abs", "err")>>,
              Builder |-> builder, fatal |-> TRUE]
        ELSE IF ~openOk
        THEN [calls |-> call \o <<Ev("gorm.Open", "err")>>,
              Builder |-> builder, fatal |-> TRUE]
        ELSE [calls |-> call \o <<Ev("gorm.Open", "ok")>>,
              Builder |-> "db", fatal |-> FALSE]

---------------------------------------------------------------------------
(* Serve *)

\* Running the deferred calls, last deferred first.
RECURSIVE RunDefers(_, _)
RunDefers(stack, evs) ==
    IF stack = <<>> THEN evs
    ELSE RunDefers(Tail(stack), Append(evs, Ev(Head(stack), "ok")))

Defer(stack, call) == <<call>> \o stack

\* What the listen call can return.
ListenErrors == {Nil, "http: Server closed", "listen: address already in use"}

Init ==
    /\ Settings \in SettingsInputs
    /\ Routes \in SampleTrees
    /\ pc = "start"
    /\ mux = <<>>
    /\ cells = <<>>
    /\ events = <<>>
    /\ defers = <<>>
    /\ Builder = Nil
    /\ Pool = Nil
    /\ retval = "unset"
    /\ lastDispatch = None

\* router := &router.Routes; mux := httprouter.New(); RegisterRoutes(mux,
\* router); the CORS wrapper. A panic of the transport unwinds Serve.
ServeRegisterRoutes ==
    /\ pc = "start"
    /\ LET st == RegisterRoutes(NewMux, Routes, Root, Settings.Development)
       IN  /\ mux' = st.mux
           /\ cells' = st.cells
           /\ events' = Append(events, Ev("RegisterRoutes",
                                          IF st.panicked THEN "panic" ELSE "ok"))
           /\ pc' = IF st.panicked THEN "panic" ELSE "cert"
    /\ UNCHANGED <<Settings, Routes, defers, Builder, Pool, retval, lastDispatch>>

\* A faulty variant of the certificate bootstrap: a failed generation is
\* not fatal.
GenerateSSLCertificate_IgnoreFailure ==
    /\ pc = "cert"
    /\ LET call == Append(events, Ev("generateSSLCertificate", "called"))
       IN  \/ /\ ~Settings.CertEnabled
              /\ events' = call
           \/ /\ Settings.CertEnabled
              /\ events' = Append(call, Ev("httpscerts.Check", "ok"))
           \/ /\ Settings.CertEnabled
              /\ \E gen \in {"ok", "err"} :
                    events' = call \o <<Ev("httpscerts.Check", "err"),
                                        Ev("httpscerts.Generate", gen)>>
    /\ pc' = "open"
    /\ UNCHANGED <<Settings, Routes, mux, cells, defers, Builder, Pool, retval,
                   lastDispatch>>

\* generateSSLCertificate(address)
GenerateSSLCertificate ==
    /\ pc = "cert"
    /\ LET call == Append(events, Ev("generateSSLCertificate", "called"))
       IN  \/ /\ ~Settings.CertEnabled
              /\ events' = call
              /\ pc' = "open"
           \/ /\ Settings.CertEnabled
              /\ events' = Append(call, Ev("httpscerts.Check", "ok"))
              /\ pc' = "open"
           \/ /\ Settings.CertEnabled
              /\ \E gen \in {"ok", "err"} :
                    /\ events' = call \o <<Ev("httpscerts.Check", "err"),
                                           Ev("httpscerts.Generate", gen)>>
                    /\ pc' = IF gen = "ok" THEN "open" ELSE "fatal"
    /\ UNCHANGED <<Settings, Routes, mux, cells, defers, Builder, Pool, retval,
                   lastDispatch>>

\* db.Open(); defer db.Builder.Close()
ServeOpen ==
    /\ pc = "open"
    /\ \E absOk \in BOOLEAN, openOk \in BOOLEAN :
          LET o == Open(Settings.Driver, absOk, openOk, Builder)
          IN  /\ events' = events \o o.calls
              /\ Builder' = o.Builder
              /\ IF o.fatal
                 THEN pc' = "fatal" /\ UNCHANGED defers
                 ELSE pc' = "migrate" /\ defers' = Defer(defers, "Builder.Close")
    /\ UNCHANGED <<Settings, Routes, mux, cells, Pool, retval, lastDispatch>>

\* A faulty variant of the migration step: it migrates whatever the flag says.
ServeMigrate_Unconditional ==
    /\ pc = "migrate"
    /\ events' = Append(events, Ev("AutoMigrate", "ok"))
    /\ pc' = "queue"
    /\ UNCHANGED <<Settings, Routes, mux, cells, defers, Builder, Pool, retval,
                   lastDispatch>>

\* if config.Settings.Database.AutoMigrate { db.Builder.AutoMigrate(...) }
ServeMigrate ==
    /\ pc = "migrate"
    /\ events' = IF Settings.AutoMigrate
                 THEN Append(events, Ev("AutoMigrate", "ok")) ELSE events
    /\ pc' = "queue"
    /\ UNCHANGED <<Settings, Routes, mux, cells, defers, Builder, Pool, retval,
                   lastDispatch>>

\* A faulty variant of the queue step: the Release is not deferred.
ServeQueue_NoDefer ==
    /\ pc = "queue"
    /\ LET p == ParseInt(Settings.Routines)
       IN  IF p.err # Nil
           THEN /\ events' = Append(events, Ev("strconv.ParseInt", p.err))
                /\ pc' = "fatal"
                /\ UNCHANGED Pool
           ELSE /\ events' = events \o <<Ev("strconv.ParseInt", "ok"),
                                          Ev("queue.NewPool", p.val)>>
                /\ Pool' = p.val
                /\ pc' = "listen"
    /\ UNCHANGED <<Settings, Routes, mux, cells, defers, Builder, retval,
                   lastDispatch>>

\* strconv.ParseInt; log.Fatal on error; queue.NewPool(int(routines));
\* defer queue.Pool.Release()
ServeQueue ==
    /\ pc = "queue"
    /\ LET p == ParseInt(Settings.Routines)
       IN  IF p.err # Nil
           THEN /\ events' = Append(events, Ev("strconv.ParseInt", p.err))
                /\ pc' = "fatal"
                /\ UNCHANGED <<defers, Pool>>
           ELSE /\ events' = events \o <<Ev("strconv.ParseInt", "ok"),
                                          Ev("queue.NewPool", p.val)>>
                /\ Pool' = p.val
                /\ defers' = Defer(defers, "Pool.Release")
                /\ pc' = "listen"
    /\ UNCHANGED <<Settings, Routes, mux, cells, Builder, retval, lastDispatch>>

\* The banner, then the call of http.ListenAndServeTLS or http.ListenAndServe.
ServeListen ==
    /\ pc = "listen"
    /\ events' = Append(events,
                        Ev(IF Settings.CertEnabled
                           THEN "ListenAndServeTLS" ELSE "ListenAndServe", "called"))
    /\ pc' = "listening"
    /\ UNCHANGED <<Settings, Routes, mux, cells, defers, Builder, Pool, retval,
                   lastDispatch>>

\* The transport serves one request: it resolves (verb, path) against the
\* bindings and runs the bound callback, or answers not found itself.
ServeHTTP(verb, path, r, outcome) ==
    LET hit == {k \in 1..Len(mux) : mux[k].verb = verb /\ mux[k].uri = path}
    IN  /\ IF hit = {}
           THEN lastDispatch' = [kind |-> "notfound", verb |-> verb, path |-> path]
           ELSE LET b == mux[CHOOSE k \in hit : TRUE]
                IN  lastDispatch' =
                        [kind |-> "served", verb |-> verb, path |-> path,
                         mode |-> b.mode, inbound |-> r, outcome |-> outcome]
                            @@ Callback(b, cells, r, outcome)
        /\ UNCHANGED <<Settings, Routes, pc, mux, cells, events, defers, Builder,
                       Pool, retval>>

\* The requests the transport is sent: one for every bound (verb, path)
\* pair, and one for a pair that is bound in no tree.
Targets == {<<mux[k].verb, mux[k].uri>> : k \in 1..Len(mux)} \cup {<<"HEAD", "/b">>}

\* A request arrives while Serve is blocked in the listen call.
Dispatch ==
    /\ pc = "listening"
    /\ \E t \in Targets, r \in BodyStreams, outcome \in HandlerOutcomes :
          ServeHTTP(t[1], t[2], r, outcome)

\* The same, for the requests of SampleStreams only.
DispatchSample ==
    /\ pc = "listening"
    /\ \E t \in Targets, r \in SampleStreams, outcome \in HandlerOutcomes :
          ServeHTTP(t[1], t[2], r, outcome)

\* A bound callback is run on the router RegisterRoutes has just filled.
Resolve ==
    /\ pc = "cert"
    /\ \E k \in 1..Len(mux), r \in SampleStreams :
          ServeHTTP(mux[k].verb, mux[k].uri, r, "response")

\* The listen call returns err; Serve returns it, running its deferred calls.
ListenReturn ==
    /\ pc = "listening"
    /\ \E err \in ListenErrors :
          /\ retval' = err
          /\ events' = RunDefers(defers, Append(events, Ev("listen returned", err)))
    /\ defers' = <<>>
    /\ pc' = "returned"
    /\ UNCHANGED <<Settings, Routes, mux, cells, Builder, Pool, lastDispatch>>

Next ==
    \/ ServeRegisterRoutes
    \/ GenerateSSLCertificate
    \/ ServeOpen
    \/ ServeMigrate
    \/ ServeQueue
    \/ ServeListen
    \/ DispatchSample
    \/ ListenReturn

\* The bootstrap, from every configuration.
Spec == Init /\ [][Next]_vars

\* The dispatch callbacks on every request of the bound, from the
\* configurations that differ in what the callbacks read.
PlainSettings ==
    [Development : BOOLEAN, CertEnabled : {FALSE}, Driver : {"sqlite3"},
     AutoMigrate : {FALSE}, Routines : {<<"4">>}]

InitDispatch ==
    /\ Settings \in PlainSettings
    /\ Routes \in SampleTrees
    /\ pc = "start"
    /\ mux = <<>>
    /\ cells = <<>>
    /\ events = <<>>
    /\ defers = <<>>
    /\ Builder = Nil
    /\ Pool = Nil
    /\ retval = "unset"
    /\ lastDispatch = None

NextDispatch ==
    \/ ServeRegisterRoutes
    \/ GenerateSSLCertificate
    \/ ServeOpen
    \/ ServeMigrate
    \/ ServeQueue
    \/ ServeListen
    \/ Dispatch
    \/ ListenReturn

SpecDispatch == InitDispatch /\ [][NextDispatch]_vars

\* RegisterRoutes on every router tree of the bound.
InitRoutes ==
    /\ Settings \in PlainSettings
    /\ \E l \in RouteLists : \E c \in Cuts(Len(l)) : Routes = MkTree(l, c)
    /\ pc = "start"
    /\ mux = <<>>
    /\ cells = <<>>
    /\ events = <<>>
    /\ defers = <<>>
    /\ Builder = Nil
    /\ Pool = Nil
    /\ retval = "unset"
    /\ lastDispatch = None

NextRoutes ==
    \/ ServeRegisterRoutes
    \/ Resolve

SpecRoutes == InitRoutes /\ [][NextRoutes]_vars

---------------------------------------------------------------------------
(* Properties *)

ListenOps == {"ListenAndServe", "ListenAndServeTLS"}

Listened == \E i \in 1..Len(events) : events[i].op \in ListenOps

\* The listen call the configuration selects.
ListenOp == IF Settings.CertEnabled THEN "ListenAndServeTLS" ELSE "ListenAndServe"

\* The results of the calls of o made so far.
Res(o) == {events[i].res : i \in {j \in 1..Len(events) : events[j].op = o}}

StepOps == {"RegisterRoutes", "generateSSLCertificate", "db.Open", "AutoMigrate",
            "queue.NewPool"} \cup ListenOps

\* The startup steps Serve has taken, in the order it took them.
StartupSteps == Filter(Ops(events), StepOps)

MigrateStep == IF Settings.AutoMigrate THEN <<"AutoMigrate">> ELSE <<>>

Ended == pc \in {"returned", "fatal", "panic"}

\* C1 as stated: in a run that reaches the listen step the startup steps are
\* certificate bootstrap, storage open, optional migration, Task Queue
\* creation, RegisterRoutes, listen, in this order.
C1_OrderAsClaimed ==
    Listened =>
        StartupSteps = <<"generateSSLCertificate", "db.Open">> \o MigrateStep
                           \o <<"queue.NewPool", "RegisterRoutes", ListenOp>>

\* C1, amended: in a run that reaches the listen step the startup steps are
\* RegisterRoutes, certificate bootstrap, storage open, optional migration,
\* Task Queue creation, listen, each exactly once and in this order.
C1_StartupOrder ==
    Listened =>
        StartupSteps = <<"RegisterRoutes", "generateSSLCertificate", "db.Open">>
                           \o MigrateStep \o <<"queue.NewPool", ListenOp>>

C1_Witness ==
    pc = "listening" /\ Settings.AutoMigrate /\ Settings.CertEnabled

\* C2: when the listen call has returned, Serve has called Release exactly
\* once and Close exactly once, both after the listen call returned, and
\* Serve returns the error the listen call returned.
C2_ShutdownOnReturn ==
    /\ Has(events, "listen returned") =>
          /\ pc = "returned"
          /\ Count(events, "Pool.Release") = 1
          /\ Count(events, "Builder.Close") = 1
          /\ Before(events, "listen returned", "Pool.Release")
          /\ Before(events, "listen returned", "Builder.Close")
          /\ Res("listen returned") = {retval}
    /\ pc = "returned" => Has(events, "listen returned")

C2_Witness ==
    /\ pc = "returned"
    /\ retval = "listen: address already in use"
    /\ Has(events, "Pool.Release")

\* C3: with secure transport enabled and the check reporting the pair
\* missing there is exactly one generation attempt; with the check reporting
\* a valid pair there is none; with secure transport disabled there is
\* neither a check nor a generation; a failed generation ends the process
\* before the storage connection is opened and before listening.
C3_CertificateBootstrap ==
    LET checks == Count(events, "httpscerts.Check")
        gens   == Count(events, "httpscerts.Generate")
    IN  /\ Has(events, "generateSSLCertificate") =>
              /\ ~Settings.CertEnabled => checks = 0 /\ gens = 0
              /\ Settings.CertEnabled => checks = 1
              /\ "err" \in Res("httpscerts.Check") => gens = 1
              /\ "ok" \in Res("httpscerts.Check") => gens = 0
        /\ ~Has(events, "generateSSLCertificate") => checks = 0 /\ gens = 0
        /\ "err" \in Res("httpscerts.Generate") =>
              /\ pc = "fatal"
              /\ ~Has(events, "db.Open")
              /\ ~Has(events, "gorm.Open")
              /\ Builder = Nil
              /\ ~Listened

C3_Witness ==
    /\ pc = "fatal"
    /\ Settings.CertEnabled
    /\ Count(events, "httpscerts.Generate") = 1
    /\ "err" \in Res("httpscerts.Generate")

\* A worker count that is a positive integer.
PositiveRoutines ==
    LET p == ParseInt(Settings.Routines) IN p.err = Nil /\ p.val >= 1

\* C4: a worker count that is not a positive integer ends Serve fatally with
\* no Task Queue created and no listening, and the Task Queue is created
\* only with a capacity of at least 1.
C4_PositiveWorkerCount ==
    /\ \A capacity \in Res("queue.NewPool") : capacity >= 1
    /\ (Has(events, "strconv.ParseInt") /\ ~PositiveRoutines) =>
          pc = "fatal" /\ ~Has(events, "queue.NewPool") /\ ~Listened

\* C5 as stated: an unsupported driver name ends db.Open fatally with no
\* open attempted and Builder unassigned; each supported name has exactly
\* one open attempted, and Builder is assigned only if it succeeds.
C5_OpenAsClaimed ==
    (Has(events, "db.Open") /\ pc # "open") =>
        /\ Settings.Driver \notin SupportedDrivers =>
              pc = "fatal" /\ Count(events, "gorm.Open") = 0 /\ Builder = Nil
        /\ Settings.Driver \in SupportedDrivers =>
              /\ Count(events, "gorm.Open") = 1
              /\ Builder # Nil <=> Res("gorm.Open") = {"ok"}

\* C5, amended: as stated, except that for sqlite3 a failure to resolve the
\* database path ends db.Open fatally with no open attempted and Builder
\* unassigned; otherwise a supported name has exactly one open attempted.
C5_Open ==
    /\ ~Has(events, "db.Open") => Builder = Nil /\ ~Has(events, "gorm.Open")
    /\ Has(events, "db.Open") =>
        /\ Settings.Driver \notin SupportedDrivers =>
              pc = "fatal" /\ Count(events, "gorm.Open") = 0 /\ Builder = Nil
        /\ Has(events, "filepath.Abs") =>
              /\ Settings.Driver = "sqlite3"
              /\ pc = "fatal" /\ Count(events, "gorm.Open") = 0 /\ Builder = Nil
        /\ (Settings.Driver \in SupportedDrivers /\ ~Has(events, "filepath.Abs")) =>
              /\ Count(events, "gorm.Open") = 1
              /\ Builder # Nil <=> Res("gorm.Open") = {"ok"}
              /\ Res("gorm.Open") = {"err"} => pc = "fatal"

C5_Witness ==
    /\ Settings.Driver = "sqlite3"
    /\ Has(events, "filepath.Abs")
    /\ pc = "fatal"

\* C6: every request a callback serves has its transport body read exactly
\* once, its handler invoked at most once and exactly one Response write,
\* also when the handler fails.
C6_OneResponseWrite ==
    lastDispatch.kind = "served" =>
        /\ lastDispatch.bodyReads = 1
        /\ lastDispatch.handlerCalls <= 1
        /\ lastDispatch.writes = 1

\* The bytes a read of the transport stream r yields before it ends or fails.
Readable(r) ==
    IF r.failAt = -1 THEN r.data ELSE SubSeq(r.data, 1, r.failAt)

\* The request the callback of the other dispatch mode hands to the handler.
OtherModeRequest ==
    LET route == [Handler |-> lastDispatch.handler]
    IN  IF lastDispatch.mode = "development"
        THEN productionHandler(route, lastDispatch.inbound, lastDispatch.outcome).req
        ELSE developmentHandler(route, lastDispatch.inbound, lastDispatch.outcome).req

\* C7: the request handed to the handler is the one the other mode's callback
\* hands over for the same transport request: its Body is the bytes read
\* before the stream ended or failed, its stream replays exactly them from
\* the start, and only the development callback logs.
C7_SameRequestInBothModes ==
    lastDispatch.kind = "served" =>
        /\ lastDispatch.req = OtherModeRequest
        /\ lastDispatch.req.Body = Readable(lastDispatch.inbound)
        /\ ReadAll(lastDispatch.req.Stream).buff = lastDispatch.req.Body
        /\ ReadAll(lastDispatch.req.Stream).err = Nil
        /\ lastDispatch.logs # <<>> <=> lastDispatch.mode = "development"

C7_Witness ==
    /\ lastDispatch.kind = "served"
    /\ lastDispatch.mode = "development"
    /\ lastDispatch.inbound.data = <<"x", "y">>
    /\ lastDispatch.inbound.failAt = 1
    /\ lastDispatch.req.Body = <<"x">>

\* The routes of the tree, every node's.
TreeRoutes == UNION {{Routes[n].Routes[i] : i \in 1..Len(Routes[n].Routes)} : n \in Nodes}

BoundRoutes == {rt \in TreeRoutes : rt.Method \in BoundMethods}

Registered == "ok" \in Res("RegisterRoutes")

\* C8: once RegisterRoutes has returned, every route of the tree with one of
\* the six methods has exactly one binding, under its verb and URI, whose
\* callback invokes that route's handler; there is no other binding; and a
\* request for (verb, path) runs the handler of the route with that pair.
C8_ExactHandler ==
    Registered =>
        /\ \A rt \in BoundRoutes :
              LET ks == {k \in 1..Len(mux) :
                            mux[k].verb = rt.Method /\ mux[k].uri = rt.URI}
              IN  /\ Cardinality(ks) = 1
                  /\ \A k \in ks : cells[mux[k].route].Handler = rt.Handler
        /\ Len(mux) = Cardinality(BoundRoutes)
        /\ lastDispatch.kind = "served" =>
              \E rt \in BoundRoutes :
                  /\ rt.Method = lastDispatch.verb
                  /\ rt.URI = lastDispatch.path
                  /\ rt.Handler = lastDispatch.handler

C8_Witness ==
    /\ Registered
    /\ lastDispatch.kind = "served"
    /\ \E n \in Nodes :
          /\ Len(Routes[n].Routes) = 2
          /\ n # Root
          /\ Routes[n].Routes[1].Handler = lastDispatch.handler

\* C9: RegisterRoutes runs once and before the listen call; once the listen
\* call has started the bindings never change; and every binding has the
\* dispatch mode the development flag selects.
C9_BoundBeforeListening ==
    /\ [](/\ Count(events, "RegisterRoutes") <= 1
          /\ \A o \in ListenOps : Before(events, "RegisterRoutes", o)
          /\ Listened => Registered
          /\ ~Has(events, "RegisterRoutes") => mux = <<>>
          /\ \A k \in 1..Len(mux) :
                mux[k].mode = IF Settings.Development THEN "development"
                              ELSE "production")
    /\ [][Listened => (/\ mux' = mux
                        /\ cells' = cells
                        /\ Count(events', "RegisterRoutes")
                              = Count(events, "RegisterRoutes"))]_vars

C9_Witness ==
    /\ pc = "returned"
    /\ Len(mux) >= 2
    /\ Settings.Development
    /\ lastDispatch.kind = "served"

\* C10: whenever Serve has ended after the storage connection was opened,
\* the connection has been closed; whenever it has ended after the Task
\* Queue was created, Release has been called, before the Close.
C10_ReleaseOnEveryExit ==
    Ended =>
        /\ "ok" \in Res("gorm.Open") => Count(events, "Builder.Close") = 1
        /\ Has(events, "queue.NewPool") =>
              /\ Count(events, "Pool.Release") = 1
              /\ Before(events, "Pool.Release", "Builder.Close")

===========================================================================
